---- MODULE Spec2Model ----
(***************************************************************************)
(* Race replay engine of racevizv2: the animation clock of the hook        *)
(* useRaceAnimation, the position interpolator getPositionAtTime and the   *)
(* ranking function calculateRacePlacing.                                  *)
(*                                                                         *)
(* Units.  Simulation instants are whole milliseconds (what Date.getTime() *)
(* returns).  The wall clock is performance.now() sampled on an integer    *)
(* grid.  The speed multiplier is counted in steps of the speed slider     *)
(* (1/SpeedDen), so that deltaTime * speed is the exact rational           *)
(* delta * speed / SpeedDen, which `new Date(...)` then truncates.         *)
(*                                                                         *)
(* Tracks lie on the equator (lat = 0), where the haversine distance is    *)
(* proportional to the difference of longitudes and _slerp is linear in    *)
(* the longitude, so both are computed exactly.  Longitudes of track       *)
(* points are counted on a grid of half the near-duplicate angle of        *)
(* _slerp (1e-6 rad = OmegaEps grid steps); computed positions and         *)
(* distances are counted in 1/PosScale of a grid step, PosScale being a    *)
(* common multiple of all segment durations.  The factor R of the          *)
(* haversine formula is left out: it scales every distance alike.          *)
(***************************************************************************)
EXTENDS Integers, Sequences, FiniteSets, TLC

\* ------------------------------------------------------------------ bounds
MaxStart == 1
MaxDuration == 3
MaxWall == 4
MaxDelta == 2
MaxFrameId == 4
MaxSpeed == 4
ScrubSteps == 4
MaxPoints == 3
MaxT == 3
MaxLon == 2
NumRacers == 3
RankMaxPoints == 2
RankMaxT == 2
RankMaxLon == 1
TimeOrigin == 20
DupMaxPoints == 4
DupMaxT == 2
DupMaxLon == 1
MapRacers == 2
MapMaxPoints == 3

MaxUsers == 2       \* users known to the broker
MaxConns == 2       \* SSE requests served at the same time
MaxChans == 3       \* channels made by AddClient in one behaviour

\* ------------------------------------------------------- program constants
ChanCap == 10
SpeedDen == 2
PercentDen == 1000
OmegaEps == 2
MsPerSecond == 1000
KphNum == 36
KphDen == 10

VARIABLES
  startTime,          \* prop startTime (ms)
  endTime,            \* prop endTime (ms)
  isPlaying,          \* useState isPlaying, as committed
  speed,              \* useState speed (slider steps)
  speedRef,           \* speedRef.current
  currentTime,        \* useState currentTime (UI only)
  currentTimeRef,     \* currentTimeRef.current: the simulation time (ms)
  lastFrameTimeRef,   \* lastFrameTimeRef.current; 0 stands for undefined (both falsy)
  animationFrameId,   \* animationFrameId.current; 0 stands for null (both falsy)
  pendingFrames,      \* ids registered with requestAnimationFrame and neither fired nor cancelled
  nextFrameId,        \* the id the next requestAnimationFrame call returns
  now,                \* the latest performance.now() sample
  frameTime,          \* the time last handed to the onFrame consumer
  lastOp,             \* the handler that ran last
  lastArg,            \* its argument: the scrub position, the speed or the wall-clock sample;
                      \* for a reload, the hint the unmounted component held
  component,          \* the component that called the hook: "mounted", "detached" (removed from
                      \* the tree, effect cleanup still to run) or "unmounted"
  path,               \* the TrackPath of one racer of eventData.paths
  lastIndexRef,       \* lastIndexRef.current[path.racerId]
  queryTime,          \* the time of the last marker update, -1 before the first
  posResult,          \* what getPositionAtTime returned to the last marker update
  usedHint,           \* the searchFromIndex that call was given
  isMapReady,         \* useState isMapReady of EventMap
  loadPending,        \* the map's 'load' event is awaited
  hasPopup,           \* racerPopupsRef.current holds a marker for the racer
  allPaths,           \* eventData.paths, as handed to calculateRacePlacing
  event,              \* eventData.event: the declared startDate and endDate (ms), 0 when absent
  targetTime,         \* the time of the last ranking query
  placings,           \* what calculateRacePlacing returned to it
  segment,            \* the two track points last handed to calculateSpeedAndHeading
  speedAndHeading,    \* what it returned, NoSpeed before the first call
  selectedRacerId,    \* useState selectedRacerId of EventMap, 0 for null
  infoPopup,          \* infoPopupRef.current: none, or the popup and what it shows
  clients,            \* Broker.clients: user id -> channel, 0 when the key is absent
  chans,              \* the channels made so far: whether closed, and how many messages buffered
  conns,              \* the goroutines serving GET /events (handleSSE), by connection
  notifier            \* the goroutine of an API handler inside Broker.NotifyUser

clockVars == <<startTime, endTime, isPlaying, speed, speedRef, currentTime,
               currentTimeRef, lastFrameTimeRef, animationFrameId,
               pendingFrames, nextFrameId, now, frameTime, lastOp, lastArg,
               component>>

mapVars == <<isMapReady, loadPending, hasPopup>>

posVars == <<path, lastIndexRef, queryTime, posResult, usedHint, mapVars>>

speedVars == <<segment, speedAndHeading>>

popupVars == <<selectedRacerId, infoPopup>>

brokerVars == <<clients, chans, conns, notifier>>

rankVars == <<allPaths, event, targetTime, placings, speedVars, popupVars,
              brokerVars>>

vars == <<clockVars, posVars, rankVars>>

BrokerUsers == 1..MaxUsers
Conns == 1..MaxConns

\* A handleSSE goroutine that is not running; `clientChan` is its local.
NoConn == [pc |-> "idle", userID |-> 0, clientChan |-> 0]

\* No NotifyUser call in progress; `clientChan` and `ok` are its locals.
NoNotify == [pc |-> "idle", userID |-> 0, clientChan |-> 0, ok |-> FALSE]

Speeds == 1..MaxSpeed
ScrubPercents == { (k * PercentDen) \div ScrubSteps : k \in 0..ScrubSteps }
WallSamples == { w \in now..(now + MaxDelta) : w <= MaxWall }

\* ------------------------------------------------------- useRaceAnimation

\* new Date(x) for the rational x = num / den >= 0: TimeClip truncates.
DateOf(num, den) == num \div den

\* animate, line 48: lastFrameTimeRef.current ? now - lastFrameTimeRef.current : 0
DeltaTime(last, sample) == IF last # 0 THEN sample - last ELSE 0

ReachedEndStrict(cur, delta, s, end) == cur * SpeedDen + delta * s > end * SpeedDen

\* animate, lines 50-53: newTimestamp >= endTimestamp, with
\* newTimestamp = cur + delta * s / SpeedDen kept exact.
ReachedEnd(cur, delta, s, end) == cur * SpeedDen + delta * s >= end * SpeedDen

AnimateTimeNoClamp(cur, delta, s, end) ==
  DateOf(cur * SpeedDen + delta * s, SpeedDen)

AnimateTimeAtUnitSpeed(cur, delta, s, end) ==
  IF ReachedEnd(cur, delta, SpeedDen, end)
    THEN end
    ELSE DateOf(cur * SpeedDen + delta * SpeedDen, SpeedDen)

\* animate, lines 53-61: the new value of currentTimeRef.current.
AnimateTime(cur, delta, s, end) ==
  IF ReachedEnd(cur, delta, s, end)
    THEN end
    ELSE DateOf(cur * SpeedDen + delta * s, SpeedDen)

ScrubTimeFromZero(start, end, p) == DateOf((end - start) * p, PercentDen)

\* scrubTo, lines 96-98; p is the slider value in tenths of a percent.
ScrubTime(start, end, p) == start + DateOf((end - start) * p, PercentDen)

PlaySampleKept(last, sample) == last

\* play/pause effect, line 77: lastFrameTimeRef.current = performance.now()
PlaySample(last, sample) == sample

CancelNothing(pending, id) == pending

\* effect cleanup, lines 81-85: if (animationFrameId.current) cancelAnimationFrame(...)
CancelFrame(pending, id) == IF id # 0 THEN pending \ {id} ELSE pending

\* ---------------------------------------------------------------- mapUtils

RECURSIVE Factorial(_)
Factorial(n) == IF n <= 1 THEN 1 ELSE n * Factorial(n - 1)

\* A common multiple of every segment duration 1..MaxT.
PosScale == Factorial(MaxT)

\* What Math.* yields once a NaN has entered the computation.
NotANumber == 0 - 1

\* points[i] of a JavaScript array (0-based).
At(points, i) == points[i + 1]

Abs(x) == IF x < 0 THEN 0 - x ELSE x

\* haversineDistance of two positions on the equator, both given in
\* 1/PosScale grid steps.
haversineDistance(lon1, lon2) ==
  IF lon1 = NotANumber \/ lon2 = NotANumber
    THEN NotANumber
    ELSE Abs(lon2 - lon1)

\* The position of a track point in 1/PosScale grid steps.
PointLon(pt) == pt.lon * PosScale

\* _slerp(p1, p2, factor) with factor = num / den; den = 0 is the factor
\* 0 / 0 = NaN of an unguarded zero-duration segment.
slerp(p1, p2, num, den) ==
  LET omega == Abs(p2.lon - p1.lon)
  IN IF omega < OmegaEps
       THEN [lat |-> p1.lat, lon |-> PointLon(p1)]
       ELSE IF den = 0
              THEN [lat |-> NotANumber, lon |-> NotANumber]
              ELSE [lat |-> p1.lat,
                    lon |-> PointLon(p1)
                              + (p2.lon - p1.lon) * num * (PosScale \div den)]

NullResult == [st |-> "null", lat |-> 0, lon |-> 0, foundIndex |-> 0]
NoResult == [st |-> "none", lat |-> 0, lon |-> 0, foundIndex |-> 0]
Thrown == [st |-> "throw", lat |-> 0, lon |-> 0, foundIndex |-> 0]
Found(lat, lon, i) == [st |-> "ok", lat |-> lat, lon |-> lon, foundIndex |-> i]

\* getPositionAtTime, lines 82 and 89-91: the first point, foundIndex 0.
ClampFirst(points) ==
  Found(At(points, 0).lat, PointLon(At(points, 0)), 0)

ClampLastAtLast(points) ==
  LET lastPoint == At(points, Len(points) - 1)
  IN Found(lastPoint.lat, PointLon(lastPoint), Len(points) - 1)

\* getPositionAtTime, lines 92-95 and 125-126: the last point,
\* foundIndex points.length - 2.
ClampLast(points) ==
  LET lastPoint == At(points, Len(points) - 1)
  IN Found(lastPoint.lat, PointLon(lastPoint), Len(points) - 2)

\* The loops of getPositionAtTime, lines 98-110 and 114-122:
\* for (i = from; i < limit; i++), returning from the first segment
\* [i, i+1] with t1 <= target <= t2.  `guarded` tells whether the loop
\* has the segmentDuration === 0 test of line 104.
RECURSIVE ScanSegments(_, _, _, _, _)
ScanSegments(points, target, i, limit, guarded) ==
  IF i >= limit
    THEN NullResult
    ELSE IF i + 1 >= Len(points)
      THEN Thrown
      ELSE
        LET p1 == At(points, i)
            p2 == At(points, i + 1)
            t1 == p1.timestamp
            t2 == p2.timestamp
        IN IF target >= t1 /\ target <= t2
             THEN IF guarded /\ t2 - t1 = 0
                    THEN Found(p1.lat, PointLon(p1), i)
                    ELSE LET pos == slerp(p1, p2, target - t1, t2 - t1)
                         IN Found(pos.lat, pos.lon, i)
             ELSE ScanSegments(points, target, i + 1, limit, guarded)

ForwardSearchSkip(points, target, searchFromIndex) ==
  ScanSegments(points, target, searchFromIndex + 1, Len(points) - 1, TRUE)

ForwardSearchUnguarded(points, target, searchFromIndex) ==
  ScanSegments(points, target, searchFromIndex, Len(points) - 1, FALSE)

\* Optimized forward search, lines 97-110.
ForwardSearch(points, target, searchFromIndex) ==
  ScanSegments(points, target, searchFromIndex, Len(points) - 1, TRUE)

FallbackSearchNone(points, target, searchFromIndex) == NullResult

\* Full search fallback, lines 112-123.
FallbackSearch(points, target, searchFromIndex) ==
  IF searchFromIndex > 0
    THEN ScanSegments(points, target, 0, searchFromIndex, FALSE)
    ELSE NullResult

getPositionAtTimeSearchOnly(trackPath, target, searchFromIndex) ==
  LET points == trackPath.points
      n      == Len(points)
  IN IF n < 2
       THEN IF n = 1 THEN ClampFirst(points) ELSE NullResult
       ELSE LET fwd == ForwardSearch(points, target, searchFromIndex)
            IN IF fwd.st # "null"
                 THEN fwd
                 ELSE LET back == FallbackSearch(points, target, searchFromIndex)
                      IN IF back.st # "null" THEN back ELSE ClampLast(points)

\* getPositionAtTime(path, targetTime, searchFromIndex), lines 74-127.
getPositionAtTime(trackPath, target, searchFromIndex) ==
  LET points == trackPath.points
      n      == Len(points)
  IN IF n < 2
       THEN IF n = 1 THEN ClampFirst(points) ELSE NullResult
       ELSE IF target <= At(points, 0).timestamp
         THEN ClampFirst(points)
         ELSE IF target >= At(points, n - 1).timestamp
           THEN ClampLast(points)
           ELSE LET fwd == ForwardSearch(points, target, searchFromIndex)
                IN IF fwd.st # "null"
                     THEN fwd
                     ELSE LET back == FallbackSearch(points, target, searchFromIndex)
                          IN IF back.st # "null" THEN back ELSE ClampLast(points)

\* ProcessFile (gpx), step 7: the sum of DistanceTo over consecutive points.
RECURSIVE TotalDistance(_, _)
TotalDistance(points, i) ==
  IF i >= Len(points) - 1
    THEN 0
    ELSE haversineDistance(PointLon(At(points, i)), PointLon(At(points, i + 1)))
           + TotalDistance(points, i + 1)

\* A TrackPath as ProcessFile assembles it.
TrackPath(id, points) ==
  [racerId |-> id, points |-> points, totalDistance |-> TotalDistance(points, 0)]

TrackPoints(lons, times) ==
  [lat : {0}, lon : lons, timestamp : times]

\* Point sequences of at most maxLen points, ascending by timestamp.
PointSeqs(maxLen, lons, times) ==
  UNION { { ps \in [1..n -> TrackPoints(lons, times)] :
              \A i \in 1..(n - 1) : ps[i].timestamp <= ps[i + 1].timestamp }
          : n \in 0..maxLen }

QueryTimes == 0..(MaxT + 1)

\* The hint the host keeps for the next call, EventMap lines 185-188.
NextHint(res, old) == IF res.st = "ok" THEN res.foundIndex ELSE old

IdleClock ==
  /\ startTime = 1
  /\ endTime = 1
  /\ isPlaying = FALSE
  /\ speed = SpeedDen
  /\ speedRef = SpeedDen
  /\ currentTime = 1
  /\ currentTimeRef = 1
  /\ lastFrameTimeRef = 0
  /\ animationFrameId = 0
  /\ pendingFrames = {}
  /\ nextFrameId = 1
  /\ now = 1
  /\ frameTime = 1
  /\ lastOp = "init"
  /\ lastArg = 0
  /\ component = "mounted"

IdlePos ==
  /\ path = TrackPath(1, <<>>)
  /\ lastIndexRef = 0
  /\ queryTime = 0 - 1
  /\ posResult = NoResult
  /\ usedHint = 0
  /\ isMapReady = FALSE
  /\ loadPending = FALSE
  /\ hasPopup = FALSE

NoDates == [startDate |-> 0, endDate |-> 0]

\* No call of calculateSpeedAndHeading yet.
NoSpeed == [speedKph |-> [k |-> "none", v |-> 0], heading |-> 0, divided |-> FALSE]

IdleSpeed ==
  /\ segment = <<>>
  /\ speedAndHeading = NoSpeed

\* infoPopupRef.current is null.
NoPopup == [st |-> "none", lat |-> 0, lon |-> 0, speedKph |-> 0, heading |-> 0]

IdlePopup ==
  /\ selectedRacerId = 0
  /\ infoPopup = NoPopup

\* NewBroker (part_000 lines 25-29), no request being served.
IdleBroker ==
  /\ clients = [u \in BrokerUsers |-> 0]
  /\ chans = <<>>
  /\ conns = [c \in Conns |-> NoConn]
  /\ notifier = NoNotify

IdleRank ==
  /\ allPaths = <<>>
  /\ event = NoDates
  /\ targetTime = 0 - 1
  /\ placings = <<>>
  /\ IdleSpeed
  /\ IdlePopup
  /\ IdleBroker

Init ==
  /\ IdlePos
  /\ IdleRank
  /\ startTime \in 0..MaxStart
  /\ endTime \in startTime..(startTime + MaxDuration)
  /\ isPlaying = FALSE
  /\ speed = SpeedDen
  /\ speedRef = SpeedDen
  /\ currentTime = startTime
  /\ currentTimeRef = startTime
  /\ lastFrameTimeRef = 0
  /\ animationFrameId = 0
  /\ pendingFrames = {}
  /\ nextFrameId = 1
  /\ now = 1
  /\ frameTime = startTime
  /\ lastOp = "init"
  /\ lastArg = 0
  /\ component = "mounted"

\* togglePlayPause while paused, then the commit of isPlaying = true:
\* cleanup of the previous effect, then the effect body (lines 75-79).
Play(w) ==
  /\ ~isPlaying
  /\ nextFrameId <= MaxFrameId
  /\ isPlaying' = TRUE
  /\ lastFrameTimeRef' = PlaySample(lastFrameTimeRef, w)
  /\ animationFrameId' = nextFrameId
  /\ pendingFrames' = CancelFrame(pendingFrames, animationFrameId) \cup {nextFrameId}
  /\ nextFrameId' = nextFrameId + 1
  /\ now' = w
  /\ lastOp' = "play"
  /\ lastArg' = w
  /\ UNCHANGED component
  /\ UNCHANGED <<startTime, endTime, speed, speedRef, currentTime,
                 currentTimeRef, frameTime>>
  /\ UNCHANGED <<posVars, rankVars>>

\* togglePlayPause while playing, then the commit of isPlaying = false:
\* the cleanup runs, the effect body does nothing.
Pause ==
  /\ isPlaying
  /\ isPlaying' = FALSE
  /\ pendingFrames' = CancelFrame(pendingFrames, animationFrameId)
  /\ lastOp' = "pause"
  /\ lastArg' = 0
  /\ UNCHANGED component
  /\ UNCHANGED <<startTime, endTime, speed, speedRef, currentTime,
                 currentTimeRef, lastFrameTimeRef, animationFrameId,
                 nextFrameId, now, frameTime>>
  /\ UNCHANGED <<posVars, rankVars>>

\* The body of animate (lines 45-71), run at wall-clock sample w, with
\* `rest` the registrations left once the browser has taken this callback.
AnimateClock(w, rest) ==
  LET delta == DeltaTime(lastFrameTimeRef, w)
      t     == AnimateTime(currentTimeRef, delta, speedRef, endTime)
  IN /\ currentTimeRef' = t
     /\ frameTime' = t
     /\ currentTime' = t
     /\ IF ReachedEnd(currentTimeRef, delta, speedRef, endTime)
          THEN \* setIsPlaying(false); when it changes the state the commit
               \* runs the effect cleanup.
               /\ isPlaying' = FALSE
               /\ pendingFrames' = IF isPlaying
                                     THEN CancelFrame(rest, animationFrameId)
                                     ELSE rest
               /\ UNCHANGED <<animationFrameId, nextFrameId>>
          ELSE /\ nextFrameId <= MaxFrameId
               /\ animationFrameId' = nextFrameId
               /\ pendingFrames' = rest \cup {nextFrameId}
               /\ nextFrameId' = nextFrameId + 1
               /\ UNCHANGED isPlaying
     /\ lastFrameTimeRef' = w
     /\ now' = w
     /\ UNCHANGED <<startTime, endTime, speed, speedRef>>

\* animate with a consumer that keeps no state of its own.
Animate(w, rest) ==
  /\ AnimateClock(w, rest)
  /\ UNCHANGED <<posVars, rankVars>>

\* The browser fires the registered frame callback `id`.
Tick(id, w) ==
  /\ id \in pendingFrames
  /\ Animate(w, pendingFrames \ {id})
  /\ lastOp' = "tick"
  /\ lastArg' = w
  /\ UNCHANGED component

\* animate called although no callback is registered (a mistakenly
\* delivered tick): only part of SpecStray.
StrayTick(w) ==
  /\ ~isPlaying
  /\ pendingFrames = {}
  /\ Animate(w, pendingFrames)
  /\ lastOp' = "stray"
  /\ lastArg' = w
  /\ UNCHANGED component

\* scrubTo (lines 94-105), then the commit when isPlaying changed.
ScrubClock(p) ==
  LET t == ScrubTime(startTime, endTime, p)
  IN /\ isPlaying' = FALSE
     /\ pendingFrames' = IF isPlaying
                           THEN CancelFrame(pendingFrames, animationFrameId)
                           ELSE pendingFrames
     /\ currentTimeRef' = t
     /\ currentTime' = t
     /\ frameTime' = t
     /\ lastOp' = "scrub"
     /\ lastArg' = p
     /\ UNCHANGED component
     /\ UNCHANGED <<startTime, endTime, speed, speedRef, lastFrameTimeRef,
                    animationFrameId, nextFrameId, now>>

\* scrubTo with a consumer that keeps no state of its own.
Scrub(p) ==
  /\ ScrubClock(p)
  /\ UNCHANGED <<posVars, rankVars>>

\* setSpeed(m), then the effect of line 42.
SetSpeed(m) ==
  /\ m # speed
  /\ speed' = m
  /\ speedRef' = m
  /\ lastOp' = "setSpeed"
  /\ lastArg' = m
  /\ UNCHANGED component
  /\ UNCHANGED <<startTime, endTime, isPlaying, currentTime, currentTimeRef,
                 lastFrameTimeRef, animationFrameId, pendingFrames,
                 nextFrameId, now, frameTime>>
  /\ UNCHANGED <<posVars, rankVars>>

Next ==
  \/ \E w \in WallSamples : Play(w)
  \/ Pause
  \/ \E id \in pendingFrames, w \in WallSamples : Tick(id, w)
  \/ \E p \in ScrubPercents : Scrub(p)
  \/ \E m \in Speeds : SetSpeed(m)

Spec == Init /\ [][Next]_vars

NextStray ==
  \/ Next
  \/ \E w \in WallSamples : StrayTick(w)

SpecStray == Init /\ [][NextStray]_vars

\* ------------------------------------------- useRaceAnimation: unmount

\* The commit that removes the component from the tree.  React runs the
\* cleanup of a passive effect after the commit: at once when the update
\* came from a discrete event, from a scheduled task otherwise.
Unmount ==
  /\ component = "mounted"
  /\ component' = "detached"
  /\ lastOp' = "detach"
  /\ lastArg' = 0
  /\ UNCHANGED <<startTime, endTime, isPlaying, speed, speedRef, currentTime,
                 currentTimeRef, lastFrameTimeRef, animationFrameId,
                 pendingFrames, nextFrameId, now, frameTime>>
  /\ UNCHANGED <<posVars, rankVars>>

\* animate (lines 45-71) fired once the component has left the tree: the
\* refs are written, setCurrentTime and setIsPlaying find no component.
LateTick(id, w) ==
  LET delta == DeltaTime(lastFrameTimeRef, w)
      t     == AnimateTime(currentTimeRef, delta, speedRef, endTime)
  IN /\ component # "mounted"
     /\ id \in pendingFrames
     /\ currentTimeRef' = t
     /\ frameTime' = t
     /\ IF ReachedEnd(currentTimeRef, delta, speedRef, endTime)
          THEN /\ pendingFrames' = pendingFrames \ {id}
               /\ UNCHANGED <<animationFrameId, nextFrameId>>
          ELSE /\ nextFrameId <= MaxFrameId
               /\ animationFrameId' = nextFrameId
               /\ pendingFrames' = (pendingFrames \ {id}) \cup {nextFrameId}
               /\ nextFrameId' = nextFrameId + 1
     /\ lastFrameTimeRef' = w
     /\ now' = w
     /\ lastOp' = "late tick"
     /\ lastArg' = w
     /\ UNCHANGED <<startTime, endTime, isPlaying, speed, speedRef,
                    currentTime, component>>
     /\ UNCHANGED <<posVars, rankVars>>

\* The cleanup of the effect (lines 81-85), run for the unmount whatever
\* isPlaying is: it reads animationFrameId.current when it runs.
\* lastArg tells whether a frame fired since the component was detached.
EffectCleanup ==
  /\ component = "detached"
  /\ component' = "unmounted"
  /\ pendingFrames' = CancelFrame(pendingFrames, animationFrameId)
  /\ lastOp' = "unmount"
  /\ lastArg' = IF lastOp = "late tick" THEN 1 ELSE 0
  /\ UNCHANGED <<startTime, endTime, isPlaying, speed, speedRef, currentTime,
                 currentTimeRef, lastFrameTimeRef, animationFrameId,
                 nextFrameId, now, frameTime>>
  /\ UNCHANGED <<posVars, rankVars>>

\* The controls and the commits of the hook exist while the component is
\* mounted; the browser fires a registered callback whether it is or not.
NextUnmount ==
  \/ /\ component = "mounted"
     /\ \/ \E w \in WallSamples : Play(w)
        \/ Pause
        \/ \E id \in pendingFrames, w \in WallSamples : Tick(id, w)
        \/ \E p \in ScrubPercents : Scrub(p)
        \/ \E m \in Speeds : SetSpeed(m)
  \/ Unmount
  \/ \E id \in pendingFrames, w \in WallSamples : LateTick(id, w)
  \/ EffectCleanup

SpecUnmount == Init /\ [][NextUnmount]_vars

\* ------------------------------------ scrubTo, call and commit apart

\* The body of scrubTo (lines 94-105): setIsPlaying(false) and
\* setCurrentTime(newTime) are queued, currentTimeRef is assigned and
\* onFrame is called.  lastOp = "scrubTo" marks the call as returned and
\* its commit as due.
ScrubCall(p) ==
  LET t == ScrubTime(startTime, endTime, p)
  IN /\ lastOp # "scrubTo"
     /\ currentTimeRef' = t
     /\ frameTime' = t
     /\ lastOp' = "scrubTo"
     /\ lastArg' = p
     /\ UNCHANGED component
     /\ UNCHANGED <<startTime, endTime, isPlaying, speed, speedRef,
                    currentTime, lastFrameTimeRef, animationFrameId,
                    pendingFrames, nextFrameId, now>>
     /\ UNCHANGED <<posVars, rankVars>>

\* The commit of the queued updates: when isPlaying turns false the effect
\* cleanup (lines 81-85) cancels the registered frame.
ScrubCommit ==
  /\ lastOp = "scrubTo"
  /\ isPlaying' = FALSE
  /\ pendingFrames' = IF isPlaying
                        THEN CancelFrame(pendingFrames, animationFrameId)
                        ELSE pendingFrames
  /\ currentTime' = currentTimeRef
  /\ lastOp' = "scrub"
  /\ UNCHANGED <<startTime, endTime, speed, speedRef, currentTimeRef,
                 lastFrameTimeRef, animationFrameId, nextFrameId, now,
                 frameTime, lastArg, component>>
  /\ UNCHANGED <<posVars, rankVars>>

\* The change event of the slider is a discrete event: React commits its
\* updates before the browser runs any other callback.
NextSteps ==
  \/ /\ lastOp # "scrubTo"
     /\ \/ \E w \in WallSamples : Play(w)
        \/ Pause
        \/ \E id \in pendingFrames, w \in WallSamples : Tick(id, w)
        \/ \E m \in Speeds : SetSpeed(m)
  \/ \E p \in ScrubPercents : ScrubCall(p)
  \/ ScrubCommit

SpecSteps == Init /\ [][NextSteps]_vars

\* ------------------------------------------------- EventMap marker updates

InitPos ==
  /\ IdleClock
  /\ IdleRank
  /\ path \in { TrackPath(1, ps) : ps \in PointSeqs(MaxPoints, 0..MaxLon, 0..MaxT) }
  /\ lastIndexRef = 0
  /\ queryTime = 0 - 1
  /\ posResult = NoResult
  /\ usedHint = 0
  /\ isMapReady = TRUE
  /\ loadPending = FALSE
  /\ hasPopup = (Len(path.points) > 0)

\* The marker update of one racer at time t, EventMap lines 180-189.  A
\* racer without points has no marker (line 122) and is skipped (line 182).
UpdateMarker(t) ==
  LET lastIndex == lastIndexRef
      res       == getPositionAtTime(path, t, lastIndex)
  IN /\ queryTime' = t
     /\ IF Len(path.points) = 0
          THEN UNCHANGED <<posResult, usedHint, lastIndexRef>>
          ELSE /\ posResult' = res
               /\ usedHint' = lastIndex
               /\ lastIndexRef' = NextHint(res, lastIndexRef)

\* The marker update on its own, the clock left aside.
Frame(t) ==
  /\ UpdateMarker(t)
  /\ UNCHANGED <<path, mapVars, clockVars, rankVars>>

\* A marker update during forward playback: time does not go back.
FrameForward(t) ==
  /\ t >= queryTime
  /\ Frame(t)

NextPos == \E t \in QueryTimes : Frame(t)

SpecPos == InitPos /\ [][NextPos]_vars

NextFwd == \E t \in QueryTimes : FrameForward(t)

SpecFwd == InitPos /\ [][NextFwd]_vars

\* ------------------------------------- getPositionAtTime with any hint

DupLons == { k * OmegaEps : k \in 0..DupMaxLon }
DupStamps == 0..DupMaxT
DupTimes == 0..(DupMaxT + 1)
DupHints == 0..DupMaxPoints

\* Tracks long enough to hold a zero-duration segment strictly inside.
InitDup ==
  /\ IdleClock
  /\ IdleRank
  /\ path \in { TrackPath(1, ps) : ps \in PointSeqs(DupMaxPoints, DupLons, DupStamps) }
  /\ lastIndexRef = 0
  /\ queryTime = 0 - 1
  /\ posResult = NoResult
  /\ usedHint = 0
  /\ isMapReady = TRUE
  /\ loadPending = FALSE
  /\ hasPopup = (Len(path.points) > 0)

\* One call getPositionAtTime(path, t, h) with an arbitrary searchFromIndex.
PositionAt(t, h) ==
  /\ posResult' = getPositionAtTime(path, t, h)
  /\ usedHint' = h
  /\ queryTime' = t
  /\ UNCHANGED <<path, lastIndexRef, mapVars, clockVars, rankVars>>

NextDup == \E t \in DupTimes, h \in DupHints : PositionAt(t, h)

SpecDup == InitDup /\ [][NextDup]_vars

\* ----------------------------------------------------- calculateRacePlacing

\* A JavaScript number that is a finite value, Infinity or NaN.
Num(v) == [k |-> "num", v |-> v]
Infinity == [k |-> "inf", v |-> 0]
NaN == [k |-> "nan", v |-> 0]

Sign(x) == IF x < 0 THEN 0 - 1 ELSE IF x > 0 THEN 1 ELSE 0

\* The sign of a - b as Array.prototype.sort reads it: NaN counts as +0.
SignOfDifference(a, b) ==
  IF a.k = "nan" \/ b.k = "nan" THEN 0
  ELSE IF a.k = "inf" THEN (IF b.k = "inf" THEN 0 ELSE 1)
  ELSE IF b.k = "inf" THEN 0 - 1
  ELSE Sign(a.v - b.v)

\* Lines 181-189: the last index of the leading run of points with
\* timestamp <= target, -1 when there is none.
RECURSIVE LastFullPointIndex(_, _, _)
LastFullPointIndex(points, target, i) ==
  IF i < Len(points) /\ At(points, i).timestamp <= target
    THEN LastFullPointIndex(points, target, i + 1)
    ELSE i - 1

\* Lines 191-194: the distance between all full points up to index k.
RECURSIVE SumFullSegments(_, _)
SumFullSegments(points, k) ==
  IF k <= 0
    THEN 0
    ELSE SumFullSegments(points, k - 1)
           + haversineDistance(PointLon(At(points, k - 1)), PointLon(At(points, k)))

Progress(id, dist, score, finished) ==
  [racerId |-> id, distanceMeters |-> dist, rankingScore |-> score,
   finished |-> finished]

\* The map callback of lines 167-223 for one path.
RacerProgressOf(trackPath, target) ==
  LET points == trackPath.points
      n      == Len(points)
      hasFinished == n > 0 /\ target >= At(points, n - 1).timestamp
  IN IF hasFinished
       THEN Progress(trackPath.racerId, trackPath.totalDistance,
                     Num(At(points, n - 1).timestamp), TRUE)
       ELSE
         LET k    == LastFullPointIndex(points, target, 0)
             full == SumFullSegments(points, k)
             pos  == getPositionAtTime(trackPath, target, k)
         IN IF k >= 0 /\ k < n - 1 /\ pos.st = "ok"
              THEN LET part == haversineDistance(PointLon(At(points, k)), pos.lon)
                   IN IF part = NotANumber
                        THEN Progress(trackPath.racerId, NotANumber, NaN, FALSE)
                        ELSE Progress(trackPath.racerId, full + part,
                                      Num(trackPath.totalDistance - (full + part)),
                                      FALSE)
              ELSE Progress(trackPath.racerId, 0, Infinity, FALSE)

CompareByScoreOnly(a, b) == SignOfDifference(a.rankingScore, b.rankingScore)

CompareByDistanceDone(a, b) ==
  IF a.finished /\ b.finished
    THEN SignOfDifference(a.rankingScore, b.rankingScore)
    ELSE IF a.finished THEN 0 - 1
    ELSE IF b.finished THEN 1
    ELSE Sign(a.distanceMeters - b.distanceMeters)

CompareLatestFirst(a, b) ==
  IF a.finished /\ b.finished
    THEN SignOfDifference(b.rankingScore, a.rankingScore)
    ELSE IF a.finished THEN 0 - 1
    ELSE IF b.finished THEN 1
    ELSE SignOfDifference(a.rankingScore, b.rankingScore)

\* The sort comparator of lines 227-237.
Compare(a, b) ==
  IF a.finished /\ b.finished
    THEN SignOfDifference(a.rankingScore, b.rankingScore)
    ELSE IF a.finished THEN 0 - 1
    ELSE IF b.finished THEN 1
    ELSE SignOfDifference(a.rankingScore, b.rankingScore)

\* Array.prototype.sort is stable: x goes behind the last element that
\* does not compare greater than it.
RECURSIVE InsertSorted(_, _, _)
InsertSorted(sorted, x, j) ==
  IF j = 0 \/ Compare(sorted[j], x) <= 0
    THEN SubSeq(sorted, 1, j) \o <<x>> \o SubSeq(sorted, j + 1, Len(sorted))
    ELSE InsertSorted(sorted, x, j - 1)

RECURSIVE SortProgress(_)
SortProgress(items) ==
  IF Len(items) = 0
    THEN <<>>
    ELSE LET front == SortProgress(SubSeq(items, 1, Len(items) - 1))
         IN InsertSorted(front, items[Len(items)], Len(front))

KeepAll(items) == items

\* Line 166: allPaths.filter(p => p.totalDistance > 0)
FilterPaths(items) == SelectSeq(items, LAMBDA p : p.totalDistance > 0)

\* calculateRacePlacing(allPaths, targetTime), lines 164-243.
calculateRacePlacing(items, target) ==
  LET kept   == FilterPaths(items)
      data   == [i \in 1..Len(kept) |-> RacerProgressOf(kept[i], target)]
      sorted == SortProgress(data)
  IN [i \in 1..Len(sorted) |->
        [racerId |-> sorted[i].racerId,
         distanceMeters |-> sorted[i].distanceMeters,
         rankingScore |-> sorted[i].rankingScore,
         finished |-> sorted[i].finished,
         rank |-> i]]

\* Ranked tracks: points at least the near-duplicate angle apart, and
\* timestamps from TimeOrigin on.
RankLons == { k * OmegaEps : k \in 0..RankMaxLon }
RankStamps == TimeOrigin..(TimeOrigin + RankMaxT)
RankTimes == (TimeOrigin - 1)..(TimeOrigin + RankMaxT + 1)

InitRank ==
  /\ IdleClock
  /\ IdlePos
  /\ allPaths \in { [i \in 1..NumRacers |-> TrackPath(i, f[i])] :
                      f \in [1..NumRacers -> PointSeqs(RankMaxPoints, RankLons, RankStamps)] }
  /\ event = NoDates
  /\ targetTime = 0 - 1
  /\ placings = <<>>
  /\ IdleSpeed
  /\ IdlePopup
  /\ IdleBroker

\* The ranking query of the animation effect, EventMap line 177.
Rank(t) ==
  /\ targetTime' = t
  /\ placings' = calculateRacePlacing(allPaths, t)
  /\ UNCHANGED <<allPaths, event, speedVars, popupVars, brokerVars, clockVars,
                 posVars>>

NextRank == \E t \in RankTimes : Rank(t)

SpecRank == InitRank /\ [][NextRank]_vars

\* ------------------------------------------ EventMap: startTime and endTime

\* minTime = Infinity and maxTime = -Infinity: no point seen yet.
NoTime == 0 - 1

\* The forEach of lines 54-61, from path i on.
RECURSIVE MinFirstTime(_, _, _)
MinFirstTime(paths, i, minTime) ==
  IF i > Len(paths)
    THEN minTime
    ELSE LET points == paths[i].points
             firstPointTime == At(points, 0).timestamp
         IN IF Len(points) > 0 /\ (minTime = NoTime \/ firstPointTime < minTime)
              THEN MinFirstTime(paths, i + 1, firstPointTime)
              ELSE MinFirstTime(paths, i + 1, minTime)

MaxLastTimeOfFirst(paths, i, maxTime) ==
  IF Len(paths) > 0 /\ Len(paths[1].points) > 0
    THEN At(paths[1].points, Len(paths[1].points) - 1).timestamp
    ELSE maxTime

RECURSIVE MaxLastTime(_, _, _)
MaxLastTime(paths, i, maxTime) ==
  IF i > Len(paths)
    THEN maxTime
    ELSE LET points == paths[i].points
             lastPointTime == At(points, Len(points) - 1).timestamp
         IN IF Len(points) > 0 /\ (maxTime = NoTime \/ lastPointTime > maxTime)
              THEN MaxLastTime(paths, i + 1, lastPointTime)
              ELSE MaxLastTime(paths, i + 1, maxTime)

\* declared || Date.now(), lines 63-64: an absent date is falsy.
DeclaredOrNow(declared, dateNow) == IF declared # 0 THEN declared ELSE dateNow

\* The useMemo of lines 51-66; dateNow1 and dateNow2 are what the two
\* Date.now() calls return.
RaceTimes(paths, ev, dateNow1, dateNow2) ==
  LET minTime == MinFirstTime(paths, 1, NoTime)
      maxTime == MaxLastTime(paths, 1, NoTime)
  IN [startTime |-> IF minTime = NoTime
                      THEN DeclaredOrNow(ev.startDate, dateNow1)
                      ELSE minTime,
      endTime   |-> IF maxTime = NoTime
                      THEN DeclaredOrNow(ev.endDate, dateNow2)
                      ELSE maxTime]

\* What Date.now() may return at the first render.
DateNowSamples == { TimeOrigin, TimeOrigin + 1 }

DeclaredDates == [startDate |-> TimeOrigin - 1, endDate |-> TimeOrigin + RankMaxT + 1]

\* eventData as fetched, before the first render of EventMap.
InitTimes ==
  /\ IdleClock
  /\ IdlePos
  /\ allPaths \in { [i \in 1..MapRacers |-> TrackPath(i, f[i])] :
                      f \in [1..MapRacers -> PointSeqs(RankMaxPoints, {0}, RankStamps)] }
  /\ event \in { NoDates, DeclaredDates }
  /\ targetTime = 0 - 1
  /\ placings = <<>>
  /\ IdleSpeed
  /\ IdlePopup
  /\ IdleBroker

\* The first render of EventMap: the useMemo of lines 51-66, then
\* useRaceAnimation's useState(startTime) and useRef(startTime).
Mount(dateNow1, dateNow2) ==
  LET times == RaceTimes(allPaths, event, dateNow1, dateNow2)
  IN /\ lastOp = "init"
     /\ dateNow1 <= dateNow2
     /\ startTime' = times.startTime
     /\ endTime' = times.endTime
     /\ currentTime' = times.startTime
     /\ currentTimeRef' = times.startTime
     /\ frameTime' = times.startTime
     /\ lastOp' = "mount"
     /\ lastArg' = 0
     /\ UNCHANGED component
     /\ UNCHANGED <<isPlaying, speed, speedRef, lastFrameTimeRef,
                    animationFrameId, pendingFrames, nextFrameId, now>>
     /\ UNCHANGED <<posVars, rankVars>>

NextTimes == \E d1 \in DateNowSamples, d2 \in DateNowSamples : Mount(d1, d2)

SpecTimes == InitTimes /\ [][NextTimes]_vars

\* ------------------------------ EventMap: the clock driving the markers

\* EventMap once mounted and its map data set up: racer 1 is the racer
\* whose marker is followed, the other racers only widen the time span.
\* The speed stays at its initial 1x.
InitMap ==
  /\ allPaths \in { [i \in 1..MapRacers |-> TrackPath(i, f[i])] :
                      f \in { g \in [1..MapRacers -> PointSeqs(MapMaxPoints, RankLons, RankStamps)] :
                                \A i \in 2..MapRacers :
                                   /\ Len(g[i]) <= RankMaxPoints
                                   /\ \A k \in 1..Len(g[i]) : g[i][k].lon = 0 } }
  /\ event = DeclaredDates
  /\ targetTime = 0 - 1
  /\ placings = <<>>
  /\ IdleSpeed
  /\ IdlePopup
  /\ IdleBroker
  /\ path = allPaths[1]
  /\ lastIndexRef = 0
  /\ queryTime = 0 - 1
  /\ posResult = NoResult
  /\ usedHint = 0
  /\ isMapReady = TRUE
  /\ loadPending = FALSE
  /\ hasPopup = (Len(path.points) > 0)
  /\ startTime = RaceTimes(allPaths, event, TimeOrigin, TimeOrigin).startTime
  /\ endTime = RaceTimes(allPaths, event, TimeOrigin, TimeOrigin).endTime
  /\ isPlaying = FALSE
  /\ speed = SpeedDen
  /\ speedRef = SpeedDen
  /\ currentTime = startTime
  /\ currentTimeRef = startTime
  /\ lastFrameTimeRef = 0
  /\ animationFrameId = 0
  /\ pendingFrames = {}
  /\ nextFrameId = 1
  /\ now = 1
  /\ frameTime = startTime
  /\ lastOp = "init"
  /\ lastArg = 0
  /\ component = "mounted"

\* A frame callback fires: animate, whose onFrame consumer moves the marker.
TickFrame(id, w) ==
  /\ id \in pendingFrames
  /\ AnimateClock(w, pendingFrames \ {id})
  /\ lastOp' = "tick"
  /\ lastArg' = w
  /\ UNCHANGED component
  /\ UpdateMarker(currentTimeRef')
  /\ UNCHANGED <<path, mapVars, rankVars>>

\* scrubTo, whose onFrame consumer moves the marker inside the call.
ScrubFrame(p) ==
  /\ ScrubClock(p)
  /\ UpdateMarker(currentTimeRef')
  /\ UNCHANGED <<path, mapVars, rankVars>>

NextMap ==
  \/ \E w \in WallSamples : Play(w)
  \/ Pause
  \/ \E id \in pendingFrames, w \in WallSamples : TickFrame(id, w)
  \/ \E p \in ScrubPercents : ScrubFrame(p)

SpecMap == InitMap /\ [][NextMap]_vars

\* ------------------------------------ calculateRacePlacing on longer tracks

\* Racer 1 has up to MapMaxPoints points, the other racers short tracks.
InitProgress ==
  /\ IdleClock
  /\ IdlePos
  /\ allPaths \in { [i \in 1..MapRacers |-> TrackPath(i, f[i])] :
                      f \in { g \in [1..MapRacers -> PointSeqs(MapMaxPoints, RankLons, RankStamps)] :
                                \A i \in 2..MapRacers : Len(g[i]) <= RankMaxPoints } }
  /\ event = NoDates
  /\ targetTime = 0 - 1
  /\ placings = <<>>
  /\ IdleSpeed
  /\ IdlePopup
  /\ IdleBroker

NextProgress == \E t \in RankTimes : Rank(t)

SpecProgress == InitProgress /\ [][NextProgress]_vars

\* ------------------------- EventMapPage: loading and reloading the tracks

ReloadTracks == { TrackPath(1, ps) : ps \in PointSeqs(MapMaxPoints, RankLons, RankStamps) }

\* lastIndexRef of a newly mounted EventMap: useRef({}) (line 40), read
\* as lastIndexRef.current[racerId] || 0 (line 183).
FreshHint(old) == 0

\* EventMap as EventMapPage mounts it on the fetched tracks `track`, the
\* map created and its 'load' event awaited (lines 35-49 and 80-89).
\* EventMapPage shows the spinner from the start of a fetch to the first
\* response.  `discarded` is the hint the unmounted component held.
Mounted(track, discarded) ==
  LET times == RaceTimes(<<track>>, DeclaredDates, TimeOrigin, TimeOrigin)
  IN /\ path' = track
     /\ lastIndexRef' = FreshHint(discarded)
     /\ queryTime' = 0 - 1
     /\ posResult' = NoResult
     /\ usedHint' = 0
     /\ isMapReady' = FALSE
     /\ loadPending' = TRUE
     /\ hasPopup' = FALSE
     /\ startTime' = times.startTime
     /\ endTime' = times.endTime
     /\ currentTime' = times.startTime
     /\ currentTimeRef' = times.startTime
     /\ frameTime' = times.startTime
     /\ isPlaying' = FALSE
     /\ pendingFrames' = CancelFrame(pendingFrames, animationFrameId)
     /\ lastFrameTimeRef' = 0
     /\ animationFrameId' = 0
     /\ UNCHANGED <<speed, speedRef, nextFrameId, now>>
     /\ UNCHANGED rankVars

InitReload ==
  /\ IdleRank
  /\ path \in ReloadTracks
  /\ lastIndexRef = 0
  /\ queryTime = 0 - 1
  /\ posResult = NoResult
  /\ usedHint = 0
  /\ isMapReady = FALSE
  /\ loadPending = TRUE
  /\ hasPopup = FALSE
  /\ startTime = RaceTimes(<<path>>, DeclaredDates, TimeOrigin, TimeOrigin).startTime
  /\ endTime = RaceTimes(<<path>>, DeclaredDates, TimeOrigin, TimeOrigin).endTime
  /\ currentTime = startTime
  /\ currentTimeRef = startTime
  /\ frameTime = startTime
  /\ isPlaying = FALSE
  /\ speed = SpeedDen
  /\ speedRef = SpeedDen
  /\ lastFrameTimeRef = 0
  /\ animationFrameId = 0
  /\ pendingFrames = {}
  /\ nextFrameId = 1
  /\ now = 1
  /\ lastOp = "init"
  /\ lastArg = 0
  /\ component = "mounted"

\* EventMapPage fetches other tracks: EventMap is unmounted for the
\* spinner and mounted again on the new eventData.
Reload(track) ==
  /\ track # path
  /\ Mounted(track, lastIndexRef)
  /\ lastOp' = "reload"
  /\ lastArg' = lastIndexRef
  /\ UNCHANGED component

\* The marker loop of the animation effect (lines 180-189) for the
\* followed racer, whose track in eventData is `track`, at time t, reading
\* the hint `lastIndex`.
EffectMarkerOn(track, t, popup, lastIndex) ==
  LET res == getPositionAtTime(track, t, lastIndex)
  IN IF popup
       THEN /\ queryTime' = t
            /\ posResult' = res
            /\ usedHint' = lastIndex
            /\ lastIndexRef' = NextHint(res, lastIndex)
       ELSE /\ lastIndexRef' = lastIndex
            /\ UNCHANGED <<queryTime, posResult, usedHint>>

EffectMarker(t, popup, lastIndex) == EffectMarkerOn(path, t, popup, lastIndex)

\* The response of a fetch that a later fetch has superseded arrives while
\* EventMap is mounted on the first response: fetchData gives up no pending
\* request (EventMapPage lines 47-63), and setEventData changes the prop
\* eventData of the mounted component.  startTime and endTime are computed
\* anew (lines 51-66), the hook keeps its state, the map effect builds a new
\* map (line 169) and the animation effect runs on the new tracks (line 265)
\* with isMapReady, the markers and the hints as they are.  The racer has
\* the same id in both responses.
DataChange(track) ==
  LET times == RaceTimes(<<track>>, DeclaredDates, TimeOrigin, TimeOrigin)
  IN /\ track # path
     /\ path' = track
     /\ startTime' = times.startTime
     /\ endTime' = times.endTime
     /\ loadPending' = TRUE
     /\ IF isMapReady
          THEN EffectMarkerOn(track, currentTime, hasPopup, lastIndexRef)
          ELSE UNCHANGED <<lastIndexRef, queryTime, posResult, usedHint>>
     /\ pendingFrames' = CancelFrame(pendingFrames, animationFrameId)
     /\ lastOp' = "data"
     /\ lastArg' = lastIndexRef
     /\ UNCHANGED component
     /\ UNCHANGED <<isMapReady, hasPopup, rankVars>>
     /\ UNCHANGED <<isPlaying, speed, speedRef, currentTime, currentTimeRef,
                    lastFrameTimeRef, animationFrameId, nextFrameId, now,
                    frameTime>>

\* The map fires 'load': setupMapData (lines 96-155).  When isMapReady
\* turns true the animation effect runs for the current time.
MapLoad ==
  /\ loadPending
  /\ loadPending' = FALSE
  /\ hasPopup' = (Len(path.points) > 0)
  /\ isMapReady' = TRUE
  /\ IF isMapReady
       THEN /\ lastIndexRef' = 0
            /\ UNCHANGED <<queryTime, posResult, usedHint>>
       ELSE EffectMarker(currentTime, hasPopup', 0)
  /\ lastOp' = "load"
  /\ lastArg' = 0
  /\ UNCHANGED component
  /\ UNCHANGED <<path, rankVars>>
  /\ UNCHANGED <<startTime, endTime, isPlaying, speed, speedRef, currentTime,
                 currentTimeRef, lastFrameTimeRef, animationFrameId,
                 pendingFrames, nextFrameId, now, frameTime>>

\* setMapStyle: the map effect runs again (line 169) on the same tracks.
StyleChange ==
  /\ ~loadPending
  /\ loadPending' = TRUE
  /\ lastOp' = "style"
  /\ lastArg' = 0
  /\ UNCHANGED component
  /\ UNCHANGED <<path, lastIndexRef, queryTime, posResult, usedHint,
                 isMapReady, hasPopup, rankVars>>
  /\ UNCHANGED <<startTime, endTime, isPlaying, speed, speedRef, currentTime,
                 currentTimeRef, lastFrameTimeRef, animationFrameId,
                 pendingFrames, nextFrameId, now, frameTime>>

\* The hook's currentTime changes to t (a tick or a scrub) and the
\* animation effect runs (lines 173-189).
TimeChange(t) ==
  /\ t # currentTime
  /\ startTime <= t
  /\ t <= endTime
  /\ currentTime' = t
  /\ currentTimeRef' = t
  /\ frameTime' = t
  /\ EffectMarker(t, isMapReady /\ hasPopup, lastIndexRef)
  /\ lastOp' = "frame"
  /\ lastArg' = 0
  /\ UNCHANGED component
  /\ UNCHANGED <<path, mapVars, rankVars>>
  /\ UNCHANGED <<startTime, endTime, isPlaying, speed, speedRef,
                 lastFrameTimeRef, animationFrameId, pendingFrames,
                 nextFrameId, now>>

NextReload ==
  \/ \E track \in ReloadTracks : Reload(track)
  \/ \E track \in ReloadTracks : DataChange(track)
  \/ MapLoad
  \/ StyleChange
  \/ \E t \in RankStamps : TimeChange(t)

SpecReload == InitReload /\ [][NextReload]_vars

\* -------------------------------------------------- calculateSpeedAndHeading

\* a / b of two JavaScript numbers, a >= 0; a is a multiple of b whenever
\* b is a segment duration.
Divide(a, b) ==
  IF b = 0
    THEN IF a = 0 THEN NaN ELSE Infinity
    ELSE IF b < 0
      THEN Num(0 - (a \div (0 - b)))
      ELSE Num(a \div b)

\* (atan2(y, x) * 180 / PI + 360) % 360 on the equator, where x = 0 and
\* y = sin(lon2 - lon1): east, west, or atan2(0, 0) = 0.
Heading(lon1, lon2) ==
  IF lon2 > lon1 THEN 90 ELSE IF lon2 < lon1 THEN 270 ELSE 0

\* The same function without the test of line 141.
calculateSpeedAndHeadingUnguarded(p1, p2) ==
  LET distanceMeters == haversineDistance(PointLon(p1), PointLon(p2))
      t1 == p1.timestamp
      t2 == p2.timestamp
  IN [speedKph |-> Divide(distanceMeters * MsPerSecond * KphNum, (t2 - t1) * KphDen),
      heading  |-> Heading(p1.lon, p2.lon),
      divided  |-> TRUE]

\* calculateSpeedAndHeading(p1, p2), lines 135-156.  timeSeconds is
\* (t2 - t1) / 1000 and speedKph is distanceMeters / timeSeconds * 3.6.
\* The field `divided` records whether line 145 was executed.
calculateSpeedAndHeading(p1, p2) ==
  LET distanceMeters == haversineDistance(PointLon(p1), PointLon(p2))
      t1 == p1.timestamp
      t2 == p2.timestamp
  IN IF t2 - t1 <= 0
       THEN [speedKph |-> Num(0), heading |-> 0, divided |-> FALSE]
       ELSE [speedKph |-> Divide(distanceMeters * MsPerSecond * KphNum, (t2 - t1) * KphDen),
             heading  |-> Heading(p1.lon, p2.lon),
             divided  |-> TRUE]

SpeedPoints == TrackPoints(0..MaxLon, 0..MaxT)

InitSpeed ==
  /\ IdleClock
  /\ IdlePos
  /\ allPaths = <<>>
  /\ event = NoDates
  /\ targetTime = 0 - 1
  /\ placings = <<>>
  /\ segment \in SpeedPoints \X SpeedPoints
  /\ speedAndHeading = NoSpeed
  /\ IdlePopup
  /\ IdleBroker

\* One call of calculateSpeedAndHeading on the two points held.
SpeedAndHeading ==
  /\ speedAndHeading = NoSpeed
  /\ speedAndHeading' = calculateSpeedAndHeading(segment[1], segment[2])
  /\ UNCHANGED <<segment, allPaths, event, targetTime, placings, popupVars,
                 brokerVars,
                 clockVars, posVars>>

NextSpeed == SpeedAndHeading

SpecSpeed == InitSpeed /\ [][NextSpeed]_vars

\* ------------------------------------------------- EventMap: the info popup

\* A popup just created by the popup effect (lines 274-279): no content.
EmptyPopup == [st |-> "empty", lat |-> 0, lon |-> 0, speedKph |-> 0, heading |-> 0]

\* setLngLat and setHTML of lines 262-263.
ShownPopup(pos, sh) ==
  [st |-> "shown", lat |-> pos.lat, lon |-> pos.lon,
   speedKph |-> sh.speedKph, heading |-> sh.heading]

\* The test of line 239 that is to tell a finished racer.
RacerGone(res, points) == res.st # "ok" \/ res.foundIndex >= Len(points) - 1

\* The info popup part of the animation effect (lines 231-264) at time t,
\* run after the marker loop has stored the hint `lastIndex`.
UpdateInfoPopup(t, lastIndex) ==
  IF selectedRacerId # 0 /\ infoPopup.st # "none"
    THEN LET res == getPositionAtTime(path, t, lastIndex)
         IN IF RacerGone(res, path.points)
              THEN /\ infoPopup' = NoPopup
                   /\ selectedRacerId' = 0
              ELSE /\ infoPopup' = ShownPopup(res,
                                     calculateSpeedAndHeading(At(path.points, res.foundIndex),
                                                              At(path.points, res.foundIndex + 1)))
                   /\ UNCHANGED selectedRacerId
    ELSE UNCHANGED <<selectedRacerId, infoPopup>>

InitPopup ==
  /\ IdleClock
  /\ allPaths = <<>>
  /\ event = NoDates
  /\ targetTime = 0 - 1
  /\ placings = <<>>
  /\ IdleSpeed
  /\ IdlePopup
  /\ IdleBroker
  /\ path \in { TrackPath(1, ps) : ps \in PointSeqs(MaxPoints, 0..MaxLon, 0..MaxT) }
  /\ lastIndexRef = 0
  /\ queryTime = 0
  /\ posResult = getPositionAtTime(path, 0, 0)
  /\ usedHint = 0
  /\ isMapReady = TRUE
  /\ loadPending = FALSE
  /\ hasPopup = (Len(path.points) > 0)

\* currentTime changes to t: the animation effect moves the marker and
\* then updates the info popup.
PopupFrame(t) ==
  /\ t # queryTime
  /\ UpdateMarker(t)
  /\ UpdateInfoPopup(t, lastIndexRef')
  /\ UNCHANGED <<path, mapVars, clockVars, allPaths, event, targetTime,
                 placings, speedVars, brokerVars>>

\* A click on the racer's marker (line 140) toggles the selection.  At the
\* commit the animation effect runs first (selectedRacerId is one of its
\* dependencies), then the popup effect creates or removes the popup
\* (lines 273-285).
MarkerClick ==
  /\ hasPopup
  /\ selectedRacerId' = IF selectedRacerId = path.racerId THEN 0 ELSE path.racerId
  /\ UpdateMarker(queryTime)
  /\ infoPopup' = IF selectedRacerId' = 0
                    THEN NoPopup
                    ELSE IF infoPopup.st = "none" THEN EmptyPopup ELSE infoPopup
  /\ UNCHANGED <<path, mapVars, clockVars, allPaths, event, targetTime,
                 placings, speedVars, brokerVars>>

\* The close button of the info popup (line 278), then the same commit.
PopupClose ==
  /\ infoPopup.st # "none"
  /\ selectedRacerId' = 0
  /\ UpdateMarker(queryTime)
  /\ infoPopup' = NoPopup
  /\ UNCHANGED <<path, mapVars, clockVars, allPaths, event, targetTime,
                 placings, speedVars, brokerVars>>

NextPopup ==
  \/ \E t \in QueryTimes : PopupFrame(t)
  \/ MarkerClick
  \/ PopupClose

SpecPopup == InitPopup /\ [][NextPopup]_vars

\* ------------------------------------------------- realtime: the SSE broker

\* The server's requests touch nothing of the page.
ServerStep ==
  UNCHANGED <<clockVars, posVars, allPaths, event, targetTime, placings,
              speedVars, popupVars>>

\* make(chan []byte, 10), line 39.  The messages are told apart by nothing
\* the broker reads, so a channel is its closed flag and its buffer length.
MakeChan == [closed |-> FALSE, buffered |-> 0]

\* Broker.AddClient, lines 32-43, the whole body under b.mu: the new
\* channel takes the user's key whatever the key held.
AddClient(userID) ==
  /\ chans' = Append(chans, MakeChan)
  /\ clients' = [clients EXCEPT ![userID] = Len(chans) + 1]

\* Broker.RemoveClient, lines 46-55, the whole body under b.mu: the channel
\* found under the user's key is deleted and closed.
RemoveClient(userID) ==
  IF clients[userID] # 0
    THEN /\ clients' = [clients EXCEPT ![userID] = 0]
         /\ chans' = [chans EXCEPT ![clients[userID]].closed = TRUE]
    ELSE UNCHANGED <<clients, chans>>

\* handleSSE lines 95-121: an authenticated request of user u arrives,
\* AddClient returns its channel, RemoveClient is deferred.
SSEConnect(c, u) ==
  /\ conns[c].pc = "idle"
  /\ Len(chans) < MaxChans
  /\ AddClient(u)
  /\ conns' = [conns EXCEPT ![c] = [pc |-> "listening", userID |-> u,
                                     clientChan |-> Len(chans) + 1]]
  /\ UNCHANGED notifier
  /\ ServerStep

\* handleSSE lines 126-134: a message is received and written out.
SSEReceive(c) ==
  /\ conns[c].pc = "listening"
  /\ chans[conns[c].clientChan].buffered > 0
  /\ chans' = [chans EXCEPT ![conns[c].clientChan].buffered = @ - 1]
  /\ UNCHANGED <<clients, conns, notifier>>
  /\ ServerStep

\* handleSSE lines 126-130: the receive finds the channel closed and
\* empty, the handler returns.
SSEClosed(c) ==
  /\ conns[c].pc = "listening"
  /\ chans[conns[c].clientChan].closed
  /\ chans[conns[c].clientChan].buffered = 0
  /\ conns' = [conns EXCEPT ![c].pc = "returning"]
  /\ UNCHANGED <<clients, chans, notifier>>
  /\ ServerStep

\* handleSSE lines 135-137: the request's context is done (the client went
\* away), the handler returns.
SSEDisconnect(c) ==
  /\ conns[c].pc = "listening"
  /\ conns' = [conns EXCEPT ![c].pc = "returning"]
  /\ UNCHANGED <<clients, chans, notifier>>
  /\ ServerStep

\* handleSSE line 121: the deferred RemoveClient(userID) runs and the
\* goroutine ends.
SSECleanup(c) ==
  /\ conns[c].pc = "returning"
  /\ RemoveClient(conns[c].userID)
  /\ conns' = [conns EXCEPT ![c] = NoConn]
  /\ UNCHANGED notifier
  /\ ServerStep

\* NotifyUser lines 59-61: the channel is looked up under the read lock,
\* and the lock released.  A call that panicked has ended; the next
\* request is served as any other.
NotifyLookup(u) ==
  /\ notifier.pc \in {"idle", "panicked"}
  /\ notifier' = [pc |-> "looked", userID |-> u, clientChan |-> clients[u],
                  ok |-> clients[u] # 0]
  /\ UNCHANGED <<clients, chans, conns>>
  /\ ServerStep

\* NotifyUser lines 63-82, outside the lock.  json.Marshal cannot fail on
\* the payload of the one caller (part_006 lines 176-184: a map of numbers
\* and strings).  A send on a closed channel panics; on an open channel the
\* select sends when the buffer has room and drops the message otherwise.
NotifySend ==
  /\ notifier.pc = "looked"
  /\ IF ~notifier.ok
       THEN /\ notifier' = NoNotify
            /\ UNCHANGED chans
       ELSE IF chans[notifier.clientChan].closed
         THEN /\ notifier' = [notifier EXCEPT !.pc = "panicked"]
              /\ UNCHANGED chans
         ELSE /\ notifier' = NoNotify
              /\ chans' = IF chans[notifier.clientChan].buffered < ChanCap
                            THEN [chans EXCEPT ![notifier.clientChan].buffered = @ + 1]
                            ELSE chans
  /\ UNCHANGED <<clients, conns>>
  /\ ServerStep

InitBroker ==
  /\ IdleClock
  /\ IdlePos
  /\ IdleRank

NextBroker ==
  \/ \E c \in Conns, u \in BrokerUsers : SSEConnect(c, u)
  \/ \E c \in Conns : SSEReceive(c)
  \/ \E c \in Conns : SSEClosed(c)
  \/ \E c \in Conns : SSEDisconnect(c)
  \/ \E c \in Conns : SSECleanup(c)
  \/ \E u \in BrokerUsers : NotifyLookup(u)
  \/ NotifySend

SpecBroker == InitBroker /\ [][NextBroker]_vars

\* C1: the simulation time never leaves [startTime, endTime].
C1_TimeWithinBounds ==
  /\ startTime <= currentTimeRef
  /\ currentTimeRef <= endTime

C1_Witness ==
  /\ lastOp = "tick"
  /\ startTime < currentTimeRef
  /\ currentTimeRef < endTime

\* C2: a tick whose newTimestamp reaches endTime sets the simulation time to
\* exactly endTime, leaves the hook paused and registers no frame callback;
\* any later tick, a stray one included, leaves the time at endTime.
C2_AutoStopAtEnd ==
  [][ lastOp' \in {"tick", "stray"} =>
        LET delta == IF lastFrameTimeRef # 0 THEN now' - lastFrameTimeRef ELSE 0
        IN /\ (currentTimeRef * SpeedDen + delta * speedRef >= endTime * SpeedDen
                 => /\ currentTimeRef' = endTime
                    /\ ~isPlaying'
                    /\ pendingFrames' = {})
           /\ (currentTimeRef = endTime => currentTimeRef' = endTime) ]_vars

C2_Witness ==
  /\ lastOp = "tick"
  /\ startTime < endTime
  /\ currentTimeRef = endTime
  /\ ~isPlaying
  /\ pendingFrames = {}

\* C3: while paused no frame callback is registered, the simulation time
\* changes only through scrubTo and only play resumes the animation.
C3_PausedStaysPaused ==
  /\ [](~isPlaying => pendingFrames = {})
  /\ [][ ~isPlaying =>
           /\ (currentTimeRef' # currentTimeRef => lastOp' = "scrub")
           /\ (isPlaying' => lastOp' = "play") ]_vars

C3_Witness ==
  /\ lastOp = "pause"
  /\ ~isPlaying
  /\ animationFrameId # 0
  /\ pendingFrames = {}
  /\ startTime < currentTimeRef
  /\ currentTimeRef < endTime

C5_OneRegistration == Cardinality(pendingFrames) <= 1

C5_Witness ==
  /\ lastOp = "tick"
  /\ isPlaying
  /\ Cardinality(pendingFrames) = 1
  /\ animationFrameId \in pendingFrames
  /\ animationFrameId > 1

\* C9 (as stated): for a track with at least one point and any search
\* hint, getPositionAtTime returns the first point with foundIndex 0 when
\* t <= the first timestamp, and the last point with foundIndex len - 2
\* (0 for a single point) when t >= the last timestamp.
C9_ClampBothEnds ==
  LET points == path.points
      n      == Len(points)
  IN n >= 1 =>
       LET first    == points[1]
           last     == points[n]
           firstRes == [st |-> "ok", lat |-> first.lat,
                        lon |-> first.lon * PosScale, foundIndex |-> 0]
           lastRes  == [st |-> "ok", lat |-> last.lat,
                        lon |-> last.lon * PosScale,
                        foundIndex |-> IF n >= 2 THEN n - 2 ELSE 0]
       IN \A t \in QueryTimes, h \in 0..MaxPoints :
            LET r == getPositionAtTime(path, t, h)
            IN /\ (t <= first.timestamp => r = firstRes)
               /\ (t >= last.timestamp => r = lastRes)

\* C9 (amended): the first point with foundIndex 0 when t <= the first
\* timestamp; the last point with foundIndex len - 2 when t >= the last
\* timestamp and t > the first timestamp.  When all timestamps of the
\* track equal t, the first clamp wins.
C9_ClampFirstWins ==
  LET points == path.points
      n      == Len(points)
  IN n >= 1 =>
       LET first    == points[1]
           last     == points[n]
           firstRes == [st |-> "ok", lat |-> first.lat,
                        lon |-> first.lon * PosScale, foundIndex |-> 0]
           lastRes  == [st |-> "ok", lat |-> last.lat,
                        lon |-> last.lon * PosScale,
                        foundIndex |-> IF n >= 2 THEN n - 2 ELSE 0]
       IN /\ \A t \in QueryTimes, h \in 0..MaxPoints :
               LET r == getPositionAtTime(path, t, h)
               IN /\ (t <= first.timestamp => r = firstRes)
                  /\ (t >= last.timestamp /\ t > first.timestamp => r = lastRes)
          /\ (queryTime >= 0 /\ queryTime <= first.timestamp
                => posResult = firstRes)
          /\ (queryTime >= last.timestamp /\ queryTime > first.timestamp
                => posResult = lastRes)

C9_Witness ==
  LET points == path.points
      n      == Len(points)
  IN /\ n >= 3
     /\ points[1].timestamp < points[n].timestamp
     /\ points[1].lon # points[n].lon
     /\ queryTime >= points[n].timestamp
     /\ usedHint > 0
     /\ posResult.st = "ok"
     /\ posResult.foundIndex = n - 2
     /\ posResult.lon = points[n].lon * PosScale

\* C10: during forward playback (query times never decrease, each call
\* given the foundIndex of the previous one) every result, position and
\* foundIndex, is the one a scan from index 0 returns.
C10_HintEqualsFullScan ==
  (queryTime >= 0 /\ Len(path.points) > 0)
    => posResult = getPositionAtTime(path, queryTime, 0)

C10_Witness ==
  LET points == path.points
      n      == Len(points)
  IN /\ n >= 3
     /\ usedHint > 0
     /\ points[1].timestamp < queryTime
     /\ queryTime < points[n].timestamp
     /\ posResult.st = "ok"
     /\ posResult.foundIndex = usedHint
     /\ posResult.lon # points[usedHint + 1].lon * PosScale

\* The racers' state at targetTime, read off the tracks themselves.
LastStamp(id) == allPaths[id].points[Len(allPaths[id].points)].timestamp
HasFinished(id) ==
  Len(allPaths[id].points) > 0 /\ targetTime >= LastStamp(id)
HasStarted(id) ==
  Len(allPaths[id].points) > 0 /\ targetTime >= allPaths[id].points[1].timestamp
Remaining(entry) ==
  allPaths[entry.racerId].totalDistance - entry.distanceMeters

\* C6: every finished racer is ranked before every unfinished racer,
\* whatever the unfinished racer's distance remaining.
C6_FinishedBeforeUnfinished ==
  targetTime >= 0 =>
    \A i, j \in DOMAIN placings :
      (HasFinished(placings[i].racerId) /\ ~HasFinished(placings[j].racerId))
        => placings[i].rank < placings[j].rank

C6_Witness ==
  /\ targetTime >= 0
  /\ \E i, j \in DOMAIN placings :
       /\ HasFinished(placings[i].racerId)
       /\ ~HasFinished(placings[j].racerId)
       /\ HasStarted(placings[j].racerId)
       /\ placings[j].rankingScore.k = "num"
       /\ placings[j].rankingScore.v < placings[i].rankingScore.v

\* C7: the placings hold exactly one entry per track with
\* totalDistance > 0, none for a zero-distance track, and their ranks are
\* 1..N in order.
C7_RanksArePermutation ==
  targetTime >= 0 =>
    LET ranked == { id \in 1..NumRacers : allPaths[id].totalDistance > 0 }
    IN /\ Len(placings) = Cardinality(ranked)
       /\ \A i \in DOMAIN placings : placings[i].rank = i
       /\ \A id \in 1..NumRacers :
            Cardinality({ i \in DOMAIN placings : placings[i].racerId = id })
              = IF id \in ranked THEN 1 ELSE 0

C7_Witness ==
  /\ targetTime >= 0
  /\ Len(placings) = 2
  /\ \E id \in 1..NumRacers :
       /\ Len(allPaths[id].points) >= 2
       /\ allPaths[id].totalDistance = 0
  /\ HasFinished(placings[2].racerId)
  /\ LastStamp(placings[1].racerId) < LastStamp(placings[2].racerId)

\* C8: among the finished racers ranks ascend by finish timestamp; among
\* the unfinished ones every racer that has started precedes every racer
\* that has not (whose score is Infinity), and the started ones ascend by
\* distance remaining.
C8_OrderWithinPartitions ==
  targetTime >= 0 =>
    \A i, j \in DOMAIN placings :
      LET a == placings[i]
          b == placings[j]
      IN i < j =>
           /\ (HasFinished(a.racerId) /\ HasFinished(b.racerId)
                 => LastStamp(a.racerId) <= LastStamp(b.racerId))
           /\ (~HasFinished(a.racerId) /\ ~HasFinished(b.racerId)
                 => /\ (HasStarted(b.racerId) => HasStarted(a.racerId))
                    /\ (HasStarted(a.racerId) /\ HasStarted(b.racerId)
                          => Remaining(a) <= Remaining(b)))
           /\ (~HasStarted(b.racerId) => b.rankingScore = [k |-> "inf", v |-> 0])

C8_Witness ==
  /\ targetTime >= 0
  /\ Len(placings) = 3
  /\ ~HasFinished(placings[1].racerId)
  /\ HasStarted(placings[2].racerId)
  /\ Remaining(placings[1]) < Remaining(placings[2])
  /\ placings[1].racerId > placings[2].racerId
  /\ ~HasStarted(placings[3].racerId)

\* C11: on a track with ascending timestamps that holds consecutive points
\* with one timestamp, getPositionAtTime never yields a NaN position nor
\* throws, for any target time and any hint: the result lies between the
\* two points of the segment it names, and when the search selects a
\* zero-duration segment the result is that segment's first point.
C11_NoDivisionByZero ==
  LET points == path.points
      n      == Len(points)
  IN (/\ queryTime >= 0
      /\ \E k \in 1..(n - 1) : points[k].timestamp = points[k + 1].timestamp)
       => /\ posResult.st = "ok"
          /\ posResult.lat # NotANumber
          /\ posResult.lon # NotANumber
          /\ posResult.foundIndex \in 0..(n - 2)
          /\ LET p1 == points[posResult.foundIndex + 1]
                 p2 == points[posResult.foundIndex + 2]
             IN /\ \/ p1.lon * PosScale <= posResult.lon /\ posResult.lon <= p2.lon * PosScale
                   \/ p2.lon * PosScale <= posResult.lon /\ posResult.lon <= p1.lon * PosScale
                /\ (/\ points[1].timestamp < queryTime
                    /\ queryTime < points[n].timestamp
                    /\ p1.timestamp = p2.timestamp)
                     => /\ posResult.lat = p1.lat
                        /\ posResult.lon = p1.lon * PosScale

C11_Witness ==
  LET points == path.points
      n      == Len(points)
  IN /\ n >= 4
     /\ points[1].timestamp < queryTime
     /\ queryTime < points[n].timestamp
     /\ usedHint >= 1
     /\ usedHint <= n - 2
     /\ points[usedHint + 1].timestamp = points[usedHint + 2].timestamp
     /\ points[usedHint + 1].lon # points[usedHint + 2].lon
     /\ posResult.st = "ok"
     /\ posResult.foundIndex = usedHint
     /\ posResult.lon = points[usedHint + 1].lon * PosScale

\* The tracks of eventData.paths that have at least one point.
WithPoints == { i \in 1..Len(allPaths) : Len(allPaths[i].points) > 0 }

FirstStamp(i) == allPaths[i].points[1].timestamp

\* C18: startTime is the least first-point timestamp and endTime the
\* greatest last-point timestamp over the tracks that have points, so every
\* such track lies within [startTime, endTime]; the declared dates of the
\* event are used only when no track has points.
C18_TimesSpanTracks ==
  lastOp = "mount" =>
    IF WithPoints # {}
      THEN /\ \E i \in WithPoints : startTime = FirstStamp(i)
           /\ \E i \in WithPoints : endTime = LastStamp(i)
           /\ \A i \in WithPoints :
                /\ startTime <= FirstStamp(i)
                /\ FirstStamp(i) <= LastStamp(i)
                /\ LastStamp(i) <= endTime
      ELSE /\ event.startDate # 0 => startTime = event.startDate
           /\ event.endDate # 0 => endTime = event.endDate

C18_Witness ==
  /\ lastOp = "mount"
  /\ event = DeclaredDates
  /\ WithPoints = 1..MapRacers
  /\ startTime = FirstStamp(1)
  /\ startTime < FirstStamp(2)
  /\ endTime = LastStamp(2)
  /\ LastStamp(1) < endTime
  /\ startTime # event.startDate
  /\ endTime # event.endDate

\* The marker position positionAt(path, t) is expected to show at the two
\* ends of the time span, read off the track itself.
EndPoint(t) ==
  LET points == path.points
      pt     == IF t <= points[1].timestamp THEN points[1] ELSE points[Len(points)]
  IN [lat |-> pt.lat, lon |-> pt.lon * PosScale]

Shown(res) == [lat |-> res.lat, lon |-> res.lon]

\* C12: whatever the scheduler state and the hint cache, scrub(0) leaves
\* the simulation time at startTime and scrub(100) at endTime, the marker
\* of the racer showing getPositionAtTime(path, that time); a second
\* identical scrub changes neither the time, nor the marker, nor the hint.
C12_ScrubToEnds ==
  /\ [](( /\ lastOp = "scrub"
          /\ lastArg = 0
          /\ Len(path.points) > 0 )
          => /\ currentTimeRef = startTime
             /\ ~isPlaying
             /\ posResult.st = "ok"
             /\ Shown(posResult) = EndPoint(startTime)
             /\ Shown(posResult) = Shown(getPositionAtTime(path, startTime, 0)))
  /\ [](( /\ lastOp = "scrub"
          /\ lastArg = PercentDen
          /\ Len(path.points) > 0 )
          => /\ currentTimeRef = endTime
             /\ ~isPlaying
             /\ posResult.st = "ok"
             /\ Shown(posResult) = EndPoint(endTime)
             /\ Shown(posResult) = Shown(getPositionAtTime(path, endTime, 0)))
  /\ [][( /\ lastOp = "scrub"
          /\ lastOp' = "scrub"
          /\ lastArg \in {0, PercentDen}
          /\ lastArg' = lastArg )
          => /\ currentTimeRef' = currentTimeRef
             /\ currentTime' = currentTime
             /\ isPlaying' = isPlaying
             /\ pendingFrames' = pendingFrames
             /\ posResult' = posResult
             /\ lastIndexRef' = lastIndexRef]_vars

C12_Witness ==
  /\ lastOp = "scrub"
  /\ lastArg = 0
  /\ Len(path.points) = MapMaxPoints
  /\ usedHint > 0
  /\ startTime < path.points[1].timestamp
  /\ path.points[1].timestamp < path.points[Len(path.points)].timestamp
  /\ path.points[1].lon # path.points[Len(path.points)].lon
  /\ currentTimeRef = startTime
  /\ Shown(posResult) = EndPoint(startTime)

\* C13: on a track with strictly increasing timestamps, getPositionAtTime
\* at the timestamp of point j returns the coordinates of point j, for
\* every j and every hint, whichever of the two segments meeting at j the
\* search selects; near-duplicate consecutive points included.
C13_BoundaryContinuity ==
  LET points == path.points
      n      == Len(points)
  IN (\A k \in 1..(n - 1) : points[k].timestamp < points[k + 1].timestamp)
       => /\ \A j \in 1..n, h \in 0..MaxPoints :
               LET r == getPositionAtTime(path, points[j].timestamp, h)
               IN /\ r.st = "ok"
                  /\ r.lat = points[j].lat
                  /\ r.lon = points[j].lon * PosScale
          /\ \A j \in 1..n :
               (queryTime = points[j].timestamp /\ posResult.st = "ok")
                 => /\ posResult.lat = points[j].lat
                    /\ posResult.lon = points[j].lon * PosScale

\* C14: the first frame callback that fires after play() uses a wall-clock
\* difference of 0 and leaves the simulation time unchanged.
C14_FirstTickStandsStill ==
  [][(lastOp = "play" /\ lastOp' = "tick")
       => /\ DeltaTime(lastFrameTimeRef, now') = 0
          /\ currentTimeRef' = currentTimeRef]_vars

\* C15: setSpeed(m) changes the multiplier and nothing else: simulation
\* time, Playing/Paused, the last wall-clock sample and the pending
\* registration stay as they are; the tick that follows advances the
\* unchanged simulation time by its wall-clock difference times m.
C15_SetSpeedOnlySpeed ==
  /\ [][speed' # speed
          => /\ lastOp' = "setSpeed"
             /\ speed' = lastArg'
             /\ speedRef' = lastArg'
             /\ currentTimeRef' = currentTimeRef
             /\ currentTime' = currentTime
             /\ frameTime' = frameTime
             /\ isPlaying' = isPlaying
             /\ lastFrameTimeRef' = lastFrameTimeRef
             /\ pendingFrames' = pendingFrames
             /\ animationFrameId' = animationFrameId
             /\ startTime' = startTime
             /\ endTime' = endTime]_vars
  /\ [][(lastOp = "setSpeed" /\ lastOp' = "tick")
          => LET advanced == currentTimeRef * SpeedDen
                               + (now' - lastFrameTimeRef) * lastArg
             IN currentTimeRef' = IF advanced >= endTime * SpeedDen
                                    THEN endTime
                                    ELSE advanced \div SpeedDen]_vars

C15_Witness ==
  /\ lastOp = "setSpeed"
  /\ isPlaying
  /\ pendingFrames = {animationFrameId}
  /\ currentTimeRef > startTime
  /\ currentTimeRef < endTime
  /\ speedRef = lastArg
  /\ speedRef > SpeedDen

\* C16 (as stated): in scrub() the pending frame callback is cancelled
\* before the new simulation time is assigned: once scrubTo has assigned
\* it, no frame callback is registered any more.
C16_CancelBeforeAssign ==
  lastOp = "scrubTo" => pendingFrames = {}

\* C16 (amended): scrubTo assigns the new simulation time first; the
\* pending frame callback is cancelled by the commit that follows the call
\* before anything else runs, so that after a scrub, as after a pause, no
\* callback is registered and no tick registered before the scrub runs
\* against the scrubbed time.
C16_CancelAtCommit ==
  /\ [](lastOp \in {"scrub", "pause"} => (~isPlaying /\ pendingFrames = {}))
  /\ [][(lastOp = "scrubTo") => (lastOp' = "scrub")]_vars
  /\ [][(lastOp \in {"scrubTo", "scrub"}) => (lastOp' # "tick")]_vars
  /\ [][(lastOp = "scrubTo" /\ lastOp' = "scrub")
          => /\ currentTimeRef' = currentTimeRef
             /\ pendingFrames' = pendingFrames \ {animationFrameId}]_vars

C16_Witness ==
  /\ lastOp = "scrubTo"
  /\ isPlaying
  /\ pendingFrames = {animationFrameId}
  /\ currentTimeRef # currentTime
  /\ currentTimeRef = startTime + ((endTime - startTime) * lastArg) \div PercentDen

C19_ZeroOnNonPositiveDuration ==
  speedAndHeading # NoSpeed =>
    LET dt == segment[2].timestamp - segment[1].timestamp
    IN /\ speedAndHeading.divided => dt > 0
       /\ dt <= 0 => /\ ~speedAndHeading.divided
                     /\ speedAndHeading.heading = 0
                     /\ speedAndHeading.speedKph = Num(0)
       /\ speedAndHeading.speedKph.k = "num"
       /\ speedAndHeading.speedKph.v >= 0

C19_Witness ==
  /\ speedAndHeading # NoSpeed
  /\ segment[2].timestamp < segment[1].timestamp
  /\ segment[2].lon > segment[1].lon
  /\ speedAndHeading.speedKph = Num(0)
  /\ speedAndHeading.heading = 0

RECURSIVE LastPointUpTo(_, _, _)
LastPointUpTo(points, t, i) ==
  IF i < Len(points) /\ points[i + 1].timestamp <= t
    THEN LastPointUpTo(points, t, i + 1)
    ELSE i

PrefixLength(points, t) ==
  LET k == LastPointUpTo(points, t, 0)
      full == TotalDistance(SubSeq(points, 1, k), 0)
  IN IF k >= Len(points) \/ points[k + 1].timestamp = points[k].timestamp
       THEN full
       ELSE full + (Abs(points[k + 1].lon - points[k].lon) * (t - points[k].timestamp) * PosScale)
                     \div (points[k + 1].timestamp - points[k].timestamp)

\* C21 (as stated): for every racer that has started and not finished,
\* distanceMeters is the length of the track up to the racer's position at
\* targetTime, no segment counted twice, so that it lies within
\* 0..totalDistance and the rankingScore (the distance remaining) is >= 0.
C21_DistanceIsPrefixLength ==
  targetTime >= 0 =>
    \A i \in DOMAIN placings :
      LET id == placings[i].racerId
      IN (HasStarted(id) /\ ~HasFinished(id)) =>
           /\ placings[i].distanceMeters = PrefixLength(allPaths[id].points, targetTime)
           /\ placings[i].distanceMeters >= 0
           /\ placings[i].distanceMeters <= allPaths[id].totalDistance
           /\ placings[i].rankingScore.k = "num"
           /\ placings[i].rankingScore.v >= 0

\* C22: on a track of at least two points with ascending timestamps, for a
\* target time strictly between the first and the last timestamp and any
\* hint in 0..len-2, getPositionAtTime returns a foundIndex i with
\* t_i <= target <= t_{i+1}: the forward search or the fallback search
\* finds the segment, and the default of lines 125-126 is not reached.
C22_SearchFindsBracket ==
  LET points == path.points
      n      == Len(points)
  IN (/\ n >= 2
      /\ points[1].timestamp < queryTime
      /\ queryTime < points[n].timestamp
      /\ usedHint <= n - 2)
       => /\ posResult.st = "ok"
          /\ posResult.foundIndex \in 0..(n - 2)
          /\ points[posResult.foundIndex + 1].timestamp <= queryTime
          /\ queryTime <= points[posResult.foundIndex + 2].timestamp
          /\ LET fwd == ForwardSearch(points, queryTime, usedHint)
             IN IF fwd.st # "null"
                  THEN posResult = fwd
                  ELSE /\ FallbackSearch(points, queryTime, usedHint).st = "ok"
                       /\ posResult = FallbackSearch(points, queryTime, usedHint)

C22_Witness ==
  LET points == path.points
      n      == Len(points)
  IN /\ n >= 4
     /\ points[1].timestamp < queryTime
     /\ queryTime < points[2].timestamp
     /\ usedHint = n - 2
     /\ posResult.st = "ok"
     /\ posResult.foundIndex = 0
     /\ ForwardSearch(points, queryTime, usedHint).st = "null"

\* C23 (as stated): on a track with ascending timestamps, duplicates
\* allowed, every search hint yields the position that the marker update
\* got with the hint it held: the hint changes the cost, not the result.
C23_HintNeverChangesPosition ==
  LET n == Len(path.points)
  IN (queryTime >= 0 /\ n >= 2) =>
       \A h \in 0..(n - 2) :
         LET other == getPositionAtTime(path, queryTime, h)
         IN /\ other.st = posResult.st
            /\ other.lat = posResult.lat
            /\ other.lon = posResult.lon

\* C24 (as stated): speed and heading are shown only for a selected racer
\* that is still in progress: once the time of the frame is at or after the
\* racer's last timestamp, the frame has removed the info popup and cleared
\* the selection.
C24_PopupOnlyInProgress ==
  LET n == Len(path.points)
  IN infoPopup.st = "shown" =>
       /\ selectedRacerId # 0
       /\ n >= 1
       /\ queryTime < path.points[n].timestamp

\* C25: wall-clock time that passes while paused is not turned into
\* simulation time: the first tick after a play advances the simulation time
\* by at most the wall-clock time since that play times the multiplier, and
\* every tick by at most the time since the latest play or tick.
C25_PausedTimeNotReplayed ==
  /\ [][(lastOp = "play" /\ lastOp' = "tick")
          => (currentTimeRef' - currentTimeRef) * SpeedDen <= (now' - lastArg) * speedRef]_vars
  /\ [][(lastOp' = "tick")
          => (currentTimeRef' - currentTimeRef) * SpeedDen <= (now' - now) * speedRef]_vars

\* After a second registration at the earliest, a tick has run and the
\* simulation has advanced by less than the wall-clock time since the start.
C25_Witness ==
  /\ lastOp = "tick"
  /\ animationFrameId >= 4
  /\ speedRef = SpeedDen
  /\ currentTimeRef > startTime
  /\ currentTimeRef < endTime
  /\ currentTimeRef - startTime < now - 1

\* C26 (as stated, its safety half): every tick whose wall-clock sample is
\* later than the previous one and that does not reach endTime strictly
\* increases the simulation time, so that fairly delivered ticks bring a
\* playing clock to endTime.
C26_TickAdvances ==
  [][(/\ lastOp' = "tick"
      /\ lastFrameTimeRef # 0
      /\ now' > lastFrameTimeRef
      /\ speedRef > 0
      /\ ~ReachedEnd(currentTimeRef, DeltaTime(lastFrameTimeRef, now'), speedRef, endTime))
       => (currentTimeRef' > currentTimeRef)]_vars

\* C27: when the ranking is asked again for a later (or the same) time, every
\* racer that was finished at the earlier time keeps its rank.
C27_FinishedRankStays ==
  [][(targetTime >= 0 /\ targetTime' >= targetTime)
       => \A i \in DOMAIN placings :
            HasFinished(placings[i].racerId)
              => /\ i \in DOMAIN placings'
                 /\ placings'[i].racerId = placings[i].racerId
                 /\ placings'[i].rank = placings[i].rank
                 /\ placings'[i].finished]_vars

\* Two racers have finished, the one listed later in allPaths first.
C27_Witness ==
  /\ targetTime >= 0
  /\ \E i, j \in DOMAIN placings :
       /\ HasFinished(placings[i].racerId)
       /\ HasFinished(placings[j].racerId)
       /\ LastStamp(placings[i].racerId) < LastStamp(placings[j].racerId)
       /\ LastStamp(placings[j].racerId) = targetTime
       /\ placings[i].racerId > placings[j].racerId
       /\ placings[i].rank < placings[j].rank
  /\ \E k \in DOMAIN placings : ~HasFinished(placings[k].racerId)

\* C28 (as stated): after tracks are loaded again and startTime and endTime
\* computed from them, the simulation time lies within the new bounds, and
\* every position query made since was made for a time within them.
C28_TimeWithinNewBounds ==
  /\ startTime <= currentTimeRef
  /\ currentTimeRef <= endTime
  /\ (lastOp \in {"data", "load", "frame"} /\ posResult.st = "ok")
       => (startTime <= queryTime /\ queryTime <= endTime)

\* C29 (as stated): however NotifyUser and RemoveClient interleave,
\* NotifyUser never sends on a channel that RemoveClient has closed.
C29_NoSendOnClosed ==
  notifier.pc # "panicked"

\* C30 (as stated): the cleanup of a connection removes and closes no
\* channel but the one its handler got from AddClient, and a user's later
\* connection that is being listened on is registered after it as before.
C30_CleanupOwnChannelOnly ==
  [][\A c \in Conns :
       (conns[c].pc = "returning" /\ conns'[c].pc = "idle")
         => /\ \A i \in 1..Len(chans) :
                 (chans'[i].closed /\ ~chans[i].closed)
                   => (i = conns[c].clientChan)
            /\ \A u \in BrokerUsers :
                 (clients'[u] # clients[u])
                   => (clients[u] = conns[c].clientChan)
            /\ \A d \in Conns :
                 (/\ conns[d].pc = "listening"
                  /\ conns[d].userID = conns[c].userID
                  /\ conns[d].clientChan > conns[c].clientChan
                  /\ clients[conns[d].userID] = conns[d].clientChan)
                   => (clients'[conns[d].userID] = conns[d].clientChan)]_vars

====
